---- MODULE Spec2Model ----
(***************************************************************************)
(* grapple/types/images.py: the image object type's rendition resolver,    *)
(* the responsive source-set builder and the two image queries, as a       *)
(* state machine over the image table, the rendition table and the         *)
(* ALLOWED_IMAGE_FILTERS setting.  Strings are TLA+ strings built with \o,  *)
(* so the filter specification is the text the code builds.                *)
(***************************************************************************)
EXTENDS Integers, Sequences, FiniteSets, TLC

VARIABLES
    ALLOWED_IMAGE_FILTERS,  \* grapple_settings.ALLOWED_IMAGE_FILTERS
    renditions,             \* rows of the rendition table (image.renditions)
    last                    \* the most recent resolver call: arguments, result, engine calls

vars == <<ALLOWED_IMAGE_FILTERS, renditions, last>>

(***************************************************************************)
(* Bounds of the model.                                                    *)
(***************************************************************************)
MaxRenditions == 2      \* rows the rendition table may hold

(***************************************************************************)
(* Python values.                                                          *)
(***************************************************************************)
None == [py |-> "None"]
Str(s) == [py |-> "str", s |-> s]
\* truth value of an optional string: None and "" are false
Truthy(x) == x # None /\ x.s # ""

Returned(v) == [kind |-> "return", value |-> v]
Raised(e) == [kind |-> "raise", value |-> e]

(***************************************************************************)
(* The image table (mdl.objects) in primary-key order.  Image 1 is in a    *)
(* collection without view restrictions and has a file 250 pixels wide;    *)
(* image 2 is in a collection with a view restriction and has no file      *)
(* (file.name is None).                                                    *)
(***************************************************************************)
Collections == {1, 2}
view_restrictions == [c \in Collections |-> IF c = 2 THEN {"login"} ELSE {}]

objects ==
    << [pk |-> 1, title |-> "cat", collection |-> 1, file_name |-> Str("a.jpg"), width |-> 250],
       [pk |-> 2, title |-> "dog", collection |-> 2, file_name |-> None, width |-> 400] >>

images == {objects[i] : i \in 1..Len(objects)}
Pks == {i.pk : i \in images}
\* identifiers a query may name: the stored ones and one that is not stored
QueryIds == Pks \cup {Len(objects) + 1}

(***************************************************************************)
(* Arguments of the rendition field (lines 74-85).  A mapping of keyword   *)
(* arguments is a sequence of [key, val] in iteration order.               *)
(***************************************************************************)
IntKeys == {"width", "height", "jpegquality", "webpquality"}
Widths == {100, 200, 300}
Formats == {"webp"}

Kw(k, v) == [key |-> k, val |-> v]

RenditionKwargs ==
    {<<>>}
    \cup {<<Kw("width", w)>> : w \in Widths}
    \cup {<<Kw("width", 100), Kw("format", f)>> : f \in Formats}
    \cup {<<Kw("format", "webp"), Kw("width", 100)>>}

\* f"{val}": an Int argument prints as its decimal digits, a String as itself
fstr(k, v) == IF k \in IntKeys THEN ToString(v) ELSE v

\* f"{key}-{val}"
KeyVal(kw) == kw.key \o "-" \o fstr(kw.key, kw.val)

\* str.join(sep, parts)
RECURSIVE join(_, _)
join(sep, parts) ==
    IF parts = <<>> THEN ""
    ELSE IF Len(parts) = 1 THEN parts[1]
    ELSE parts[1] \o sep \o join(sep, Tail(parts))

\* the pairs joined in reverse of the mapping's iteration order
filters_reversed(kwargs) ==
    join("|", [i \in 1..Len(kwargs) |-> KeyVal(kwargs[Len(kwargs) + 1 - i])])

\* line 97: filters = "|".join([f"{key}-{val}" for key, val in kwargs.items()])
filters(kwargs) == join("|", [i \in 1..Len(kwargs) |-> KeyVal(kwargs[i])])

(***************************************************************************)
(* The setting: None, a value that is no list or tuple, a list, a tuple.   *)
(* value holds the entries of a list or tuple, and the text of a string.   *)
(***************************************************************************)
Setting(t, v) == [type |-> t, value |-> v]

Settings ==
    { Setting("NoneType", <<>>),
      Setting("str", <<"width-100">>),
      Setting("list", <<>>),
      Setting("list", <<"width-100", "width-200">>),
      Setting("tuple", <<"width-100|format-WEBP", "width-200|format-webp", "width-300">>) }

\* an entry that only begins the filter specification lets it pass
rendition_allowed_prefix(rendition_filter) ==
    LET allowed_filters == ALLOWED_IMAGE_FILTERS
    IN  IF allowed_filters.type = "NoneType" \/ allowed_filters.type \notin {"list", "tuple"}
        THEN TRUE
        ELSE \E i \in 1..Len(allowed_filters.value), rest \in {"", "|format-webp"} :
                 allowed_filters.value[i] \o rest = rendition_filter

\* the isinstance test left out: every value but None is searched
rendition_allowed_any_type(rendition_filter) ==
    LET allowed_filters == ALLOWED_IMAGE_FILTERS
    IN  IF allowed_filters.type = "NoneType"
        THEN TRUE
        ELSE \E i \in 1..Len(allowed_filters.value) :
                 allowed_filters.value[i] = rendition_filter

\* lines 26-32
rendition_allowed(rendition_filter) ==
    LET allowed_filters == ALLOWED_IMAGE_FILTERS
    IN  IF allowed_filters.type = "NoneType" \/ allowed_filters.type \notin {"list", "tuple"}
        THEN TRUE
        ELSE \E i \in 1..Len(allowed_filters.value) :
                 allowed_filters.value[i] = rendition_filter

(***************************************************************************)
(* The asset-rendition engine, Image.get_rendition: get-or-create keyed by *)
(* (image, filter specification).  The outcome of each call is the         *)
(* environment's choice: "ok", "SourceImageIOError" (the source file       *)
(* cannot be read, which only creating a rendition needs) or "OtherError"  *)
(* (any other storage or engine failure).  A row of the rendition table is *)
(* told from the other rows of its key by its serial n.                    *)
(***************************************************************************)
Outcomes == {"ok", "SourceImageIOError", "OtherError"}

Min(a, b) == IF a <= b THEN a ELSE b

\* spec holds the resize directive d, alone or beside a format directive
HasDirective(spec, d) ==
    \/ spec = d
    \/ \E f \in Formats : spec = d \o "|format-" \o f \/ spec = "format-" \o f \o "|" \o d

\* width-N scales down to N and never up; without it the width is the source's
RenditionWidth(instance, spec) ==
    LET ns == {n \in Widths : HasDirective(spec, "width-" \o ToString(n))}
    IN  IF ns = {} THEN instance.width ELSE Min(CHOOSE n \in ns : TRUE, instance.width)

find_existing_rendition(instance, spec, rends) ==
    {r \in rends : r.image = instance.pk /\ r.filter_spec = spec}

create_rendition(instance, spec, rends) ==
    [image |-> instance.pk, filter_spec |-> spec,
     n |-> Cardinality(find_existing_rendition(instance, spec, rends)) + 1,
     width |-> RenditionWidth(instance, spec),
     url |-> "/media/" \o ToString(instance.pk) \o "/" \o spec]

get_rendition(instance, spec, outcome, rends) ==
    IF outcome = "OtherError"
    THEN [result |-> Raised(outcome), renditions |-> rends]
    ELSE IF find_existing_rendition(instance, spec, rends) # {}
    THEN [result |-> Returned(CHOOSE r \in find_existing_rendition(instance, spec, rends) :
                                  TRUE),
          renditions |-> rends]
    ELSE IF outcome = "SourceImageIOError" \/ instance.file_name = None
    THEN [result |-> Raised("SourceImageIOError"), renditions |-> rends]
    ELSE [result |-> Returned(create_rendition(instance, spec, rends)),
          renditions |-> rends \cup {create_rendition(instance, spec, rends)}]

\* grapple.utils.get_media_item_url: the media URL of a rendition
get_media_item_url(img) == img.url

(***************************************************************************)
(* ImageObjectType.resolve_rendition, lines 93-105.  engine lists the      *)
(* calls of get_rendition: the filter specification handed over and what   *)
(* the engine returned or raised.                                          *)
(***************************************************************************)
\* a rendition created without looking for the one that exists
engine_call_create(instance, f, outcome, rends) ==
    IF outcome = "ok" /\ instance.file_name # None
    THEN [result |-> Returned(create_rendition(instance, f, rends)),
          renditions |-> rends \cup {create_rendition(instance, f, rends)}]
    ELSE get_rendition(instance, f, outcome, rends)

\* line 103: instance.get_rendition(filters)
engine_call(instance, f, outcome, rends) == get_rendition(instance, f, outcome, rends)

\* except Exception: every failure of the engine swallowed
try_get_rendition_catch_all(f, g) ==
    [result |-> IF g.result.kind = "raise" THEN Returned(None) ELSE g.result,
     renditions |-> g.renditions,
     filters |-> f,
     engine |-> <<[filter |-> f, result |-> g.result]>>]

\* lines 102-105: the try statement around the call, g being the call's outcome
try_get_rendition(f, g) ==
    [result |-> IF g.result.kind = "raise" /\ g.result.value = "SourceImageIOError"
                THEN Returned(None) ELSE g.result,
     renditions |-> g.renditions,
     filters |-> f,
     engine |-> <<[filter |-> f, result |-> g.result]>>]

\* lines 99-105, with filters as built on line 97
check_and_get(instance, f, outcome, rends) ==
    IF ~rendition_allowed(f)
    THEN [result |-> Returned(None), renditions |-> rends, filters |-> f, engine |-> <<>>]
    ELSE try_get_rendition(f, engine_call(instance, f, outcome, rends))

resolve_rendition(instance, kwargs, outcome, rends) ==
    check_and_get(instance, filters(kwargs), outcome, rends)

ResolveRendition ==
    \E instance \in images, kwargs \in RenditionKwargs, outcome \in Outcomes :
        \E r \in {resolve_rendition(instance, kwargs, outcome, renditions)} :
            /\ Cardinality(r.renditions) <= MaxRenditions
            /\ renditions' = r.renditions
            /\ last' = [op |-> "rendition", instance |-> instance.pk, kwargs |-> kwargs,
                        result |-> r.result, filters |-> r.filters,
                        engine |-> r.engine, before |-> renditions]
            /\ UNCHANGED ALLOWED_IMAGE_FILTERS

(***************************************************************************)
(* ImageObjectType.resolve_src_set, lines 131-154.                         *)
(***************************************************************************)
SizesLists ==
    {<<>>, <<100>>, <<100, 200>>, <<300, 300>>}
SrcSetFormats == {None, Str(""), Str("webp")}

\* line 135
filter_suffix(format) == IF Truthy(format) THEN "|format-" \o format.s ELSE ""

\* line 136
format_kwarg(format) == IF Truthy(format) THEN <<Kw("format", format.s)>> ELSE <<>>

\* line 143: the token the comprehension's condition checks for a width
check_token(width, format) == "width-" \o ToString(width) \o filter_suffix(format)

\* the format passed ahead of the width
inner_kwargs_format_first(width, format) == format_kwarg(format) \o <<Kw("width", width)>>

\* lines 139-141: the keyword arguments of the inner resolve_rendition call
inner_kwargs(width, format) == <<Kw("width", width)>> \o format_kwarg(format)

\* lines 138-144: the comprehension, one width at a time; an exception ends it
Collect(acc, width, token, r) ==
    [acc EXCEPT
        !.renditions = r.renditions,
        !.engine = @ \o r.engine,
        !.inner = Append(@, [width |-> width, token |-> token, filters |-> r.filters,
                             result |-> r.result]),
        !.list = IF r.result.kind = "raise" THEN @ ELSE Append(@, r.result.value),
        !.raised = IF r.result.kind = "raise" THEN <<r.result.value>> ELSE @]

\* line 143 and lines 139-141: one width of the comprehension
Visit(instance, width, format, token, outcome, acc) ==
    IF ~rendition_allowed(token)
    THEN [acc EXCEPT !.skipped = Append(@, token)]
    ELSE Collect(acc, width, token,
                 resolve_rendition(instance, inner_kwargs(width, format), outcome,
                                   acc.renditions))

RECURSIVE rendition_list(_, _, _, _, _, _)
rendition_list(instance, sizes, format, outcomes, i, acc) ==
    IF i > Len(sizes) \/ acc.raised # <<>> THEN acc
    ELSE rendition_list(instance, sizes, format, outcomes, i + 1,
             Visit(instance, sizes[i], format, check_token(sizes[i], format),
                   outcomes[i], acc))

\* line 148
descriptor(img) == get_media_item_url(img) \o " " \o ToString(img.width) \o "w"

NotNone(img) == img # None

\* the descriptors joined with a comma and no space
src_set_comma(list) ==
    join(",", [k \in 1..Len(SelectSeq(list, NotNone)) |->
                  descriptor(SelectSeq(list, NotNone)[k])])

\* lines 146-152
src_set(list) ==
    join(", ", [k \in 1..Len(SelectSeq(list, NotNone)) |->
                   descriptor(SelectSeq(list, NotNone)[k])])

Finish(acc) ==
    [acc EXCEPT !.result = IF acc.raised # <<>> THEN Raised(acc.raised[1])
                           ELSE Returned(src_set(acc.list))]

\* the test of line 137 left out
resolve_src_set_no_file_test(instance, sizes, format, outcomes, rends) ==
    Finish(rendition_list(instance, sizes, format, outcomes, 1,
               [renditions |-> rends, engine |-> <<>>, inner |-> <<>>,
                skipped |-> <<>>, list |-> <<>>, raised |-> <<>>,
                result |-> Returned("")]))

resolve_src_set(instance, sizes, format, outcomes, rends) ==
    IF instance.file_name # None
    THEN Finish(rendition_list(instance, sizes, format, outcomes, 1,
                    [renditions |-> rends, engine |-> <<>>, inner |-> <<>>,
                     skipped |-> <<>>, list |-> <<>>, raised |-> <<>>,
                     result |-> Returned("")]))
    ELSE [renditions |-> rends, engine |-> <<>>, inner |-> <<>>, skipped |-> <<>>,
          list |-> <<>>, raised |-> <<>>, result |-> Returned("")]

ResolveSrcSet ==
    \E instance \in images, sizes \in SizesLists, format \in SrcSetFormats :
        \E outcomes \in [1..Len(sizes) -> Outcomes] :
            \E r \in {resolve_src_set(instance, sizes, format, outcomes, renditions)} :
                /\ Cardinality(r.renditions) <= MaxRenditions
                /\ renditions' = r.renditions
                /\ last' = [op |-> "src_set", instance |-> instance.pk, sizes |-> sizes,
                            format |-> format, result |-> r.result, engine |-> r.engine,
                            inner |-> r.inner, skipped |-> r.skipped,
                            before |-> renditions]
                /\ UNCHANGED ALLOWED_IMAGE_FILTERS

(***************************************************************************)
(* grapple.utils.resolve_queryset: the list-resolution helper.  It narrows *)
(* the queryset it is handed by collection id and by search term and       *)
(* returns the page [offset, offset + limit) of it.  An option that is not *)
(* given is the empty set.                                                 *)
(***************************************************************************)
ListOptions ==
    [collection : {{}} \cup {{c} : c \in Collections},
     search_query : {{}, {"cat"}},
     offset : {0, 1},
     limit : {1, 2}]

Matches(image, options) ==
    /\ options.collection \subseteq {image.collection}
    /\ options.search_query \subseteq {image.title}

Page(seq, offset, limit) == SubSeq(seq, offset + 1, Min(Len(seq), offset + limit))

resolve_queryset(qs, options) ==
    Page(SelectSeq(qs, LAMBDA image : Matches(image, options)),
         options.offset, options.limit)

(***************************************************************************)
(* ImagesQuery.Mixin, lines 173-192.                                       *)
(***************************************************************************)
\* mdl.objects.all(): the filter on the collection left out
public_images_all(table) == table

\* mdl.objects.filter(collection__view_restrictions__isnull=True)
public_images(table) ==
    SelectSeq(table, LAMBDA image : view_restrictions[image.collection] = {})

\* .get(pk=id): the row, or DoesNotExist
get(qs, id) ==
    IF \E k \in 1..Len(qs) : qs[k].pk = id
    THEN Returned(qs[CHOOSE k \in 1..Len(qs) : qs[k].pk = id])
    ELSE Raised("DoesNotExist")

\* DoesNotExist not caught
resolve_image_uncaught(id) == get(public_images(objects), id)

\* lines 173-182
resolve_image(id) ==
    IF get(public_images(objects), id).kind = "raise"
    THEN Returned(None)
    ELSE get(public_images(objects), id)

\* lines 184-192
resolve_images(options) ==
    [queryset |-> public_images(objects),
     result |-> Returned(resolve_queryset(public_images(objects), options))]

ResolveImage ==
    \E id \in QueryIds :
        /\ last' = [op |-> "image", id |-> id, result |-> resolve_image(id),
                    before |-> renditions]
        /\ UNCHANGED <<ALLOWED_IMAGE_FILTERS, renditions>>

ResolveImages ==
    \E options \in ListOptions :
        \E r \in {resolve_images(options)} :
            /\ last' = [op |-> "images", options |-> options, queryset |-> r.queryset,
                        result |-> r.result, before |-> renditions]
            /\ UNCHANGED <<ALLOWED_IMAGE_FILTERS, renditions>>

Init ==
    /\ ALLOWED_IMAGE_FILTERS \in Settings
    /\ renditions = {}
    /\ last = [op |-> "none"]

Next == ResolveRendition \/ ResolveSrcSet \/ ResolveImage \/ ResolveImages

Spec == Init /\ [][Next]_vars

(***************************************************************************)
(* What the properties below read: the allow-list as a set of entries, the *)
(* image a call was made on, and a join written from its last part.        *)
(***************************************************************************)
IsSequenceSetting == ALLOWED_IMAGE_FILTERS.type \in {"list", "tuple"}

Entries == {ALLOWED_IMAGE_FILTERS.value[i] : i \in 1..Len(ALLOWED_IMAGE_FILTERS.value)}

Permitted(spec) == ~IsSequenceSetting \/ spec \in Entries

ImageOf(pk) == CHOOSE image \in images : image.pk = pk

IsNone(res) == res.kind = "return" /\ res.value = None

IsRendition(res) == res.kind = "return" /\ res.value # None

IsOtherFailure(res) == res.kind = "raise" /\ res.value # "SourceImageIOError"

RECURSIVE Joined(_, _)
Joined(sep, parts) ==
    IF Len(parts) = 0 THEN ""
    ELSE IF Len(parts) = 1 THEN parts[1]
    ELSE Joined(sep, SubSeq(parts, 1, Len(parts) - 1)) \o sep \o parts[Len(parts)]

\* one option as key-value: the digits of an Int argument, the text of a String one
Pair(option) ==
    option.key \o "-" \o
        (IF option.key \in IntKeys THEN ToString(option.val) ELSE option.val)

\* the options as key-value pairs joined with |, in the mapping's order
JoinedPairs(kwargs) == Joined("|", [i \in 1..Len(kwargs) |-> Pair(kwargs[i])])

(***************************************************************************)
(* C1: with a list or tuple as allow-list, resolve_rendition returns None  *)
(* without calling the engine when the whole joined specification is no    *)
(* entry of the list, and hands the specification to the engine and        *)
(* returns the engine's rendition when it is an entry.                     *)
(***************************************************************************)
C1_AllowListMembership ==
    (last.op = "rendition" /\ IsSequenceSetting) =>
        IF last.filters \in Entries
        THEN /\ Len(last.engine) = 1
             /\ last.engine[1].filter = last.filters
             /\ last.engine[1].result.kind = "return" => last.result = last.engine[1].result
        ELSE IsNone(last.result) /\ last.engine = <<>>

\* width-100 is an entry, width-100|format-webp is not: the request is rejected
C1_Witness ==
    /\ ALLOWED_IMAGE_FILTERS = Setting("list", <<"width-100", "width-200">>)
    /\ last.op = "rendition"
    /\ last.kwargs = <<Kw("width", 100), Kw("format", "webp")>>
    /\ last.filters = "width-100|format-webp"
    /\ IsNone(last.result)
    /\ last.engine = <<>>

C9_FilterSpecification ==
    last.op = "rendition" =>
        /\ last.filters = JoinedPairs(last.kwargs)
        /\ last.kwargs = <<>> => last.filters = ""
        /\ \A i \in 1..Len(last.engine) : last.engine[i].filter = JoinedPairs(last.kwargs)

\* two options in the order format, width
C9_Witness ==
    /\ last.op = "rendition"
    /\ last.kwargs = <<Kw("format", "webp"), Kw("width", 100)>>
    /\ last.filters = "format-webp|width-100"
    /\ last.engine # <<>>

(***************************************************************************)
(* C3: an image has at most one rendition per filter specification, and a  *)
(* resolve_rendition call whose specification already has a rendition of   *)
(* the image creates nothing and, when it returns a rendition, returns     *)
(* that one.                                                               *)
(***************************************************************************)
RenditionsOf(rends, pk, spec) == {r \in rends : r.image = pk /\ r.filter_spec = spec}

C3_OneRenditionPerSpecification ==
    /\ \A r1, r2 \in renditions :
           (r1.image = r2.image /\ r1.filter_spec = r2.filter_spec) => r1 = r2
    /\ last.op = "rendition" =>
           /\ IsRendition(last.result) =>
                  last.result.value \in RenditionsOf(renditions, last.instance, last.filters)
           /\ RenditionsOf(last.before, last.instance, last.filters) # {} =>
                  /\ renditions = last.before
                  /\ IsRendition(last.result) =>
                         last.result.value
                             \in RenditionsOf(last.before, last.instance, last.filters)

\* a second call for width-100 on image 1 returns the rendition the first one made
C3_Witness ==
    /\ last.op = "rendition"
    /\ last.instance = 1
    /\ last.filters = "width-100"
    /\ RenditionsOf(last.before, 1, "width-100") # {}
    /\ IsRendition(last.result)
    /\ renditions = last.before

(***************************************************************************)
(* C4 as stated: for an image with a file, resolve_src_set returns the     *)
(* ", "-joined "<url> <N>w" entries, in the order of sizes, one for each   *)
(* requested width N whose token is allowed and whose resolution gave a    *)
(* rendition.                                                              *)
(***************************************************************************)
GivenFormat(format) == format # None /\ format.s # ""

ExpectedToken(width, format) ==
    "width-" \o ToString(width) \o
        (IF GivenFormat(format) THEN "|format-" \o format.s ELSE "")

AllowedWidths(sizes, format) ==
    SelectSeq(sizes, LAMBDA width : Permitted(ExpectedToken(width, format)))

Resolved(inner) == SelectSeq(inner, LAMBDA visit : IsRendition(visit.result))

SrcSetReturned ==
    /\ last.op = "src_set"
    /\ ImageOf(last.instance).file_name # None
    /\ last.result.kind = "return"

C4_Original ==
    SrcSetReturned =>
        last.result.value =
            Joined(", ", [k \in 1..Len(Resolved(last.inner)) |->
                             Resolved(last.inner)[k].result.value.url \o " " \o
                             ToString(Resolved(last.inner)[k].width) \o "w"])

(***************************************************************************)
(* C4 as amended: for an image with a file, a resolve_src_set call that    *)
(* returns visits exactly the requested widths whose token is allowed, in  *)
(* the order of sizes, and returns the ", "-joined "<url> <W>w" entries of *)
(* the visits that gave a rendition, <url> being the URL of the image's    *)
(* rendition for the token and W that rendition's own width.               *)
(***************************************************************************)
C4_SrcSetDescriptors ==
    SrcSetReturned =>
        /\ [i \in 1..Len(last.inner) |-> last.inner[i].width]
               = AllowedWidths(last.sizes, last.format)
        /\ \A k \in 1..Len(Resolved(last.inner)) :
               Resolved(last.inner)[k].result.value
                   \in RenditionsOf(renditions, last.instance,
                                    ExpectedToken(Resolved(last.inner)[k].width, last.format))
        /\ last.result.value =
               Joined(", ", [k \in 1..Len(Resolved(last.inner)) |->
                                Resolved(last.inner)[k].result.value.url \o " " \o
                                ToString(Resolved(last.inner)[k].result.value.width) \o "w"])

\* sizes [100, 200] with both widths allowed
C4_Witness ==
    /\ ALLOWED_IMAGE_FILTERS = Setting("list", <<"width-100", "width-200">>)
    /\ last.op = "src_set"
    /\ last.instance = 1
    /\ last.sizes = <<100, 200>>
    /\ last.format = None
    /\ last.result = Returned("/media/1/width-100 100w, /media/1/width-200 200w")

(***************************************************************************)
(* C5: resolve_src_set on an image without a file returns "" for every     *)
(* sizes and format, calls the engine for no width and leaves the          *)
(* renditions as they were.                                                *)
(***************************************************************************)
C5_NoFileNoResolution ==
    (last.op = "src_set" /\ ImageOf(last.instance).file_name = None) =>
        /\ last.result = Returned("")
        /\ last.engine = <<>>
        /\ last.inner = <<>>
        /\ renditions = last.before

\* image 2 has no file; both widths would be allowed
C5_Witness ==
    /\ ALLOWED_IMAGE_FILTERS.type = "NoneType"
    /\ last.op = "src_set"
    /\ last.instance = 2
    /\ last.sizes = <<100, 200>>
    /\ last.format = Str("webp")
    /\ last.result = Returned("")
    /\ renditions # {}

(***************************************************************************)
(* C6: when the engine raises SourceImageIOError, resolve_rendition        *)
(* returns None and no rendition is created; every other failure of the    *)
(* engine is raised by resolve_rendition, and by resolve_src_set, which    *)
(* then returns no string.                                                 *)
(***************************************************************************)
C6_FailSoftOnUnreadableSource ==
    /\ (last.op = "rendition" /\ last.engine # <<>>) =>
           /\ (last.engine[1].result = Raised("SourceImageIOError")) =>
                  IsNone(last.result) /\ renditions = last.before
           /\ IsOtherFailure(last.engine[1].result) =>
                  last.result = last.engine[1].result
    /\ last.op = "src_set" =>
           /\ \A i \in 1..Len(last.engine) :
                  IsOtherFailure(last.engine[i].result) =>
                      /\ i = Len(last.engine)
                      /\ last.result = last.engine[i].result
           /\ (\A i \in 1..Len(last.engine) : ~IsOtherFailure(last.engine[i].result)) =>
                  last.result.kind = "return"

\* the source of image 1 cannot be read when width-100 is to be created
C6_Witness ==
    /\ last.op = "rendition"
    /\ last.instance = 1
    /\ last.filters = "width-100"
    /\ last.engine = <<[filter |-> "width-100", result |-> Raised("SourceImageIOError")]>>
    /\ IsNone(last.result)

(***************************************************************************)
(* C7: resolve_image returns the image of the given id when it exists and  *)
(* its collection has no view restriction, and None otherwise; it raises   *)
(* nothing.                                                                *)
(***************************************************************************)
Visible(id) == {image \in images : image.pk = id /\ view_restrictions[image.collection] = {}}

C7_FetchById ==
    last.op = "image" =>
        /\ last.result.kind = "return"
        /\ Visible(last.id) # {} => last.result.value \in Visible(last.id)
        /\ Visible(last.id) = {} => last.result.value = None

\* image 2 exists, in a collection with a view restriction
C7_Witness ==
    /\ last.op = "image"
    /\ last.id = 2
    /\ last.id \in Pks
    /\ IsNone(last.result)

(***************************************************************************)
(* C8: the queryset resolve_images hands to the list helper holds exactly  *)
(* the images of collections without view restrictions, its result holds   *)
(* no image of a restricted collection, and neither query changes a        *)
(* rendition.                                                              *)
(***************************************************************************)
Items(seq) == {seq[i] : i \in 1..Len(seq)}

C8_PublicImagesOnly ==
    /\ last.op = "images" =>
           /\ Items(last.queryset) =
                  {image \in images : view_restrictions[image.collection] = {}}
           /\ \A image \in Items(last.result.value) :
                  view_restrictions[image.collection] = {}
    /\ last.op \in {"image", "images"} => renditions = last.before

\* the list narrowed to the restricted collection, with renditions in the table
C8_Witness ==
    /\ last.op = "images"
    /\ last.options.collection = {2}
    /\ last.result = Returned(<<>>)
    /\ renditions # {}

(***************************************************************************)
(* C10: a request the allow-list rejects never reaches the engine:         *)
(* resolve_rendition with a disallowed specification returns None, calls   *)
(* no engine and leaves the renditions alone, and resolve_src_set calls    *)
(* the engine for no disallowed token.  The token resolve_src_set checks   *)
(* for a width is the specification resolve_rendition builds for it, so    *)
(* every width that passes the check reaches the engine.                   *)
(***************************************************************************)
C10_RejectedNeverReachesEngine ==
    /\ (last.op = "rendition" /\ ~Permitted(last.filters)) =>
           /\ IsNone(last.result)
           /\ last.engine = <<>>
           /\ renditions = last.before
    /\ last.op = "src_set" =>
           /\ \A i \in 1..Len(last.engine) : Permitted(last.engine[i].filter)
           /\ \A r \in renditions \ last.before : Permitted(r.filter_spec)
           /\ \A i \in 1..Len(last.skipped) :
                  /\ ~Permitted(last.skipped[i])
                  /\ \A j \in 1..Len(last.engine) : last.engine[j].filter # last.skipped[i]
           /\ Len(last.engine) = Len(last.inner)
           /\ \A i \in 1..Len(last.inner) :
                  /\ last.inner[i].token = last.inner[i].filters
                  /\ last.engine[i].filter = last.inner[i].token

\* width 100 with format webp is rejected (the entry is upper case), width 200 resolved
C10_Witness ==
    /\ ALLOWED_IMAGE_FILTERS.type = "tuple"
    /\ last.op = "src_set"
    /\ last.instance = 1
    /\ last.sizes = <<100, 200>>
    /\ last.format = Str("webp")
    /\ last.skipped = <<"width-100|format-webp">>
    /\ Len(last.inner) = 1
    /\ IsRendition(last.inner[1].result)
    /\ renditions \ last.before # {}
====
